---- MODULE Spec2Model ----
(***************************************************************************)
(* Model of src/server.py: two Flask POST endpoints that validate a JSON   *)
(* body, start a detached thread, and answer; the thread renders an HTML   *)
(* mail and hands it to send_email_with_brevo, which posts it to the mail  *)
(* provider.                                                               *)
(*                                                                         *)
(* Python values are records [t, s]: t is the Python type, s the           *)
(* characters of a str (one-character strings) or the items of a list.     *)
(* One request is in flight at a time: its handler and the thread it       *)
(* started interleave freely; the next request is taken once both are      *)
(* finished.                                                               *)
(***************************************************************************)
EXTENDS Integers, Sequences, FiniteSets, TLC

\* Number of requests served in one behaviour.
MaxReq == 2
\* Number of environment variables that may be unset at once.
MaxMissing == 1
\* Number of keys a JSON object sent to /api/send-device-email may lack, the
\* empty object aside.
MaxAbsent == 1
\* Longest recipient list handed directly to send_email_with_brevo.
MaxList == 4

------------------------------------------------------------------------------
\* Python / JSON values

None == [t |-> "null", s |-> <<>>]
Absent == [t |-> "absent", s |-> <<>>]
Num == [t |-> "num", s |-> <<"5">>]
Str(chars) == [t |-> "str", s |-> chars]
Arr(items) == [t |-> "arr", s |-> items]

\* bool(v)
Truthy(v) ==
    CASE v.t = "null" -> FALSE
      [] v.t = "num" -> TRUE
      [] OTHER -> Len(v.s) > 0

\* len(v) is defined for str and list, and raises TypeError otherwise
HasLen(v) == v.t \in {"str", "arr"}
PyLen(v) == Len(v.s)

DigitChars == <<"0", "1", "2", "3", "4", "5", "6", "7", "8", "9">>

\* str(n) for a natural number n
RECURSIVE Decimal(_)
Decimal(n) ==
    IF n < 10 THEN <<DigitChars[n + 1]>>
    ELSE Decimal(n \div 10) \o <<DigitChars[(n % 10) + 1]>>

\* str(v), as an f-string interpolates it
PyStr(v) ==
    CASE v.t = "null" -> <<"N", "o", "n", "e">>
      [] v.t = "str" -> v.s
      [] v.t = "num" -> v.s
      [] OTHER -> <<"[">> \o v.s \o <<"]">>

IsSpace(c) == c = " "

RECURSIVE LStrip(_)
LStrip(chars) ==
    IF chars # <<>> /\ IsSpace(Head(chars)) THEN LStrip(Tail(chars)) ELSE chars

RECURSIVE RStrip(_)
RStrip(chars) ==
    IF chars # <<>> /\ IsSpace(chars[Len(chars)])
    THEN RStrip(SubSeq(chars, 1, Len(chars) - 1))
    ELSE chars

\* str.strip()
Strip(chars) == RStrip(LStrip(chars))

Range(seq) == {seq[i] : i \in 1..Len(seq)}

\* list(S): the members of a set in some order
RECURSIVE SetToSeq(_)
SetToSeq(S) ==
    IF S = {} THEN <<>>
    ELSE LET x == CHOOSE y \in S : TRUE IN <<x>> \o SetToSeq(S \ {x})

------------------------------------------------------------------------------
\* Environment (os.getenv)

EnvNames == {"BREVO_BASE_URL", "BREVO_API_KEY", "BREVO_FROM_EMAIL",
             "ADMIN_EMAIL", "FRONTEND_URL", "ADMIN_TOKEN"}

AdminAddr == <<"r", "o", "o", "t">>
Secret == <<"k", "e", "y">>

Configured(name) ==
    CASE name = "ADMIN_EMAIL" -> Str(AdminAddr)
      [] name = "ADMIN_TOKEN" -> Str(Secret)
      [] OTHER -> Str(<<name>>)

Envs == {[n \in EnvNames |-> IF n \in M THEN None ELSE Configured(n)] :
            M \in {S \in SUBSET EnvNames : Cardinality(S) <= MaxMissing}}

------------------------------------------------------------------------------
\* Requests

Fields == {"full_name", "email", "device", "model", "serial_number", "token",
           "password"}

Jane == <<"j", "a", "n", "e", "@", "e", "x", "a", "m", "p", "l", "e", ".",
          "c", "o", "m">>
ABC123 == <<"A", "B", "C", "1", "2", "3">>

EmailValues == {Str(<<>>), Str(<<" ">>), Str(Jane), None, Arr(<<"x">>)}
SerialValues == {Str(ABC123), Num}
TokenValues == {None, Str(Secret), Str(<<"b", "a", "d">>)}
CredEmailValues == {Str(<<"a">>), Str(AdminAddr), None}

\* A field of a JSON object body holds a value or is Absent (no such key).
Plain == {Str(<<"x">>), Absent}

NoObj == [f \in Fields |-> Absent]

DeviceObjects ==
    {o \in {[full_name |-> a, email |-> b, device |-> c, model |-> d,
             serial_number |-> e, token |-> t, password |-> Absent] :
               a \in Plain, b \in EmailValues \cup {Absent}, c \in Plain,
               d \in Plain, e \in SerialValues \cup {Absent},
               t \in TokenValues \cup {Absent}} :
        Cardinality({f \in Fields \ {"password"} : o[f] = Absent}) <= MaxAbsent}
    \cup {NoObj}

CredentialsObjects ==
    {[NoObj EXCEPT !["email"] = b, !["password"] = p] :
        b \in CredEmailValues \cup {Absent}, p \in {Str(<<"p">>), Absent}}

\* What request.json yields.  kind "object": a dict, obj its items; "array"
\* and "string": a list or str, elems the field names that `in` finds in it;
\* "null", "number": None or a number; "malformed": request.json raises.
OtherBodies ==
    {[kind |-> k, obj |-> NoObj, elems |-> e] :
        k \in {"array", "string"}, e \in {{}, {"email", "password"}, Fields}}
    \cup {[kind |-> k, obj |-> NoObj, elems |-> {}] :
              k \in {"null", "number", "malformed"}}

DeviceBodies ==
    {[kind |-> "object", obj |-> o, elems |-> {}] : o \in DeviceObjects}
        \cup OtherBodies

CredentialsBodies ==
    {[kind |-> "object", obj |-> o, elems |-> {}] : o \in CredentialsObjects}
        \cup OtherBodies

\* The bodies sent with OPTIONS, which the handlers do not read.
PreflightBodies ==
    {[kind |-> "object", obj |-> NoObj, elems |-> {}]} \cup OtherBodies

NoBody == [kind |-> "none", obj |-> NoObj, elems |-> {}]
NoReq == [route |-> "none", method |-> "none", body |-> NoBody]

------------------------------------------------------------------------------
\* State

VARIABLES
    env,        \* os.environ after load_dotenv()
    nreq,       \* requests taken so far
    req,        \* the request in flight (or the last one)
    pc,         \* its handler: "idle", "started" (thread.start() done), "responded"
    resp,       \* the HTTP response, once returned
    tstate,     \* its thread: "none", "started", "calling" (requests.post), "done"
    tdata,      \* the dict the thread was given
    args,       \* the arguments of the call of send_email_with_brevo
    outbound,   \* the request given to requests.post
    calls,      \* number of requests.post calls of the thread
    logs,       \* what debug_print printed with error=True for this request
    nStarted,   \* Thread.start() calls so far
    nOk         \* POST requests answered 200 so far

vars == <<env, nreq, req, pc, resp, tstate, tdata, args, outbound, calls,
          logs, nStarted, nOk>>

getenv(name) == env[name]

NoResp == [status |-> 0, error |-> "", field |-> "", case_id |-> <<>>]
NoData == [body |-> NoBody, case_id |-> <<>>]
NoArgs == [to_addrs |-> <<>>, subject |-> <<>>, html_content |-> <<>>]
NoOutbound == [url |-> None, api_key |-> None, sender |-> None,
               subject |-> <<>>, htmlContent |-> <<>>, to |-> <<>>]

------------------------------------------------------------------------------
\* send_email_with_brevo, up to requests.post

\* [{"email": a} for a in list(set(addr.strip() for addr in to_addrs if addr))]
Recipients(to_addrs) ==
    SetToSeq({Strip(to_addrs[i].s) :
                 i \in {j \in 1..Len(to_addrs) : Truthy(to_addrs[j])}})

\* all([base_url, api_key, from_email])
BrevoConfigured ==
    /\ Truthy(getenv("BREVO_BASE_URL"))
    /\ Truthy(getenv("BREVO_API_KEY"))
    /\ Truthy(getenv("BREVO_FROM_EMAIL"))

\* The part of send_email_with_brevo before requests.post: err is "" when the
\* post is made with request, and otherwise names what was raised; every raise
\* passes through `except Exception`, which logs and raises ValidationError.
Prepare(a) ==
    IF Len(a.to_addrs) = 0 \/ Len(a.subject) = 0 \/ Len(a.html_content) = 0
    THEN [err |-> "validation", log |-> <<"unexpected">>, request |-> NoOutbound]
    ELSE IF ~BrevoConfigured
    THEN [err |-> "config", log |-> <<"config", "unexpected">>,
          request |-> NoOutbound]
    ELSE IF \E i \in 1..Len(a.to_addrs) :
                Truthy(a.to_addrs[i]) /\ a.to_addrs[i].t # "str"
    THEN [err |-> "attribute", log |-> <<"unexpected">>, request |-> NoOutbound]
    ELSE [err |-> "", log |-> <<>>,
          request |-> [url |-> getenv("BREVO_BASE_URL"),
                       api_key |-> getenv("BREVO_API_KEY"),
                       sender |-> getenv("BREVO_FROM_EMAIL"),
                       subject |-> a.subject,
                       htmlContent |-> a.html_content,
                       to |-> Recipients(a.to_addrs)]]

------------------------------------------------------------------------------
\* Request handlers

DeviceRequired == <<"full_name", "email", "device", "model", "serial_number",
                    "token">>
CredRequired == <<"email", "password">>

\* `field in data`; raises TypeError unless data is a dict, list or str
Iterable(data) == data.kind \in {"object", "array", "string"}
In(field, data) ==
    IF data.kind = "object" THEN data.obj[field] # Absent
    ELSE field \in data.elems

\* The field the validation loop stops at, "" when it runs to its end.
FirstMissing(required, data) ==
    LET miss == {i \in 1..Len(required) : ~In(required[i], data)}
    IN IF miss = {} THEN ""
       ELSE required[CHOOSE i \in miss : \A j \in miss : i <= j]

\* TokenOk, were the token compared only when ADMIN_TOKEN is set
TokenOkIfConfigured(data) ==
    \/ getenv("ADMIN_TOKEN") = None
    \/ data.obj["token"] = getenv("ADMIN_TOKEN")

\* not (data["token"] != os.getenv("ADMIN_TOKEN"))
TokenOk(data) == data.obj["token"] = getenv("ADMIN_TOKEN")

\* CaseId, were the two lengths formatted one after the other
CaseIdJoined(data) ==
    <<"1", "0", "0">> \o Decimal(PyLen(data.obj["email"]))
        \o Decimal(PyLen(data.obj["serial_number"]))

\* f"100{len(data['email']) + len(data['serial_number'])}"
CaseId(data) ==
    <<"1", "0", "0">>
        \o Decimal(PyLen(data.obj["email"]) + PyLen(data.obj["serial_number"]))

Error(status, error, field) ==
    [status |-> status, error |-> error, field |-> field, case_id |-> <<>>]
Ok(case_id) ==
    [status |-> 200, error |-> "", field |-> "", case_id |-> case_id]

\* The handler of /api/send-device-email up to its first return or to
\* thread.start(): start tells whether the thread was started, resp is the
\* response returned (at once when start is FALSE).
DeviceHandler(method, data) ==
    IF method = "OPTIONS" THEN [start |-> FALSE, resp |-> Ok(<<>>)]
    ELSE IF ~Iterable(data)
    THEN [start |-> FALSE, resp |-> Error(500, "exception", "")]
    ELSE IF FirstMissing(DeviceRequired, data) # ""
    THEN [start |-> FALSE,
          resp |-> Error(400, "missing", FirstMissing(DeviceRequired, data))]
    ELSE IF data.kind # "object"
    THEN [start |-> FALSE, resp |-> Error(500, "exception", "")]
    ELSE IF ~TokenOk(data)
    THEN [start |-> FALSE, resp |-> Error(401, "invalid_token", "")]
    ELSE IF ~HasLen(data.obj["email"]) \/ ~HasLen(data.obj["serial_number"])
    THEN [start |-> FALSE, resp |-> Error(500, "exception", "")]
    ELSE [start |-> TRUE, resp |-> Ok(CaseId(data))]

\* CredentialsHandler, were OPTIONS not answered before the body is read
CredentialsHandlerNoPreflight(method, data) ==
    IF ~Iterable(data)
    THEN [start |-> FALSE, resp |-> Error(500, "exception", "")]
    ELSE IF FirstMissing(CredRequired, data) # ""
    THEN [start |-> FALSE,
          resp |-> Error(400, "missing", FirstMissing(CredRequired, data))]
    ELSE [start |-> TRUE, resp |-> Ok(<<>>)]

\* The handler of /api/send-credentials, likewise.
CredentialsHandler(method, data) ==
    IF method = "OPTIONS" THEN [start |-> FALSE, resp |-> Ok(<<>>)]
    ELSE IF ~Iterable(data)
    THEN [start |-> FALSE, resp |-> Error(500, "exception", "")]
    ELSE IF FirstMissing(CredRequired, data) # ""
    THEN [start |-> FALSE,
          resp |-> Error(400, "missing", FirstMissing(CredRequired, data))]
    ELSE [start |-> TRUE, resp |-> Ok(<<>>)]

\* A request is taken when the previous one and its thread are finished.
Accepting ==
    /\ nreq < MaxReq
    /\ pc \in {"idle", "responded"}
    /\ tstate \in {"none", "done"}

Serve(r, h) ==
    /\ Accepting
    /\ nreq' = nreq + 1
    /\ req' = r
    /\ pc' = IF h.start THEN "started" ELSE "responded"
    /\ resp' = IF h.start THEN NoResp ELSE h.resp
    /\ tstate' = IF h.start THEN "started" ELSE "none"
    /\ tdata' = IF h.start THEN [body |-> r.body, case_id |-> h.resp.case_id]
                 ELSE NoData
    /\ nStarted' = IF h.start THEN nStarted + 1 ELSE nStarted
    /\ args' = NoArgs
    /\ outbound' = NoOutbound
    /\ calls' = 0
    /\ logs' = <<>>
    /\ nOk' = IF ~h.start /\ r.method = "POST" /\ h.resp.status = 200
               THEN nOk + 1 ELSE nOk
    /\ UNCHANGED env

hello ==
    Serve([route |-> "api", method |-> "GET", body |-> NoBody],
          [start |-> FALSE, resp |-> Ok(<<>>)])

send_device_email ==
    \/ \E data \in DeviceBodies :
          Serve([route |-> "device", method |-> "POST", body |-> data],
                DeviceHandler("POST", data))
    \/ \E data \in PreflightBodies :
          Serve([route |-> "device", method |-> "OPTIONS", body |-> data],
                DeviceHandler("OPTIONS", data))

send_credentials ==
    \/ \E data \in CredentialsBodies :
          Serve([route |-> "credentials", method |-> "POST", body |-> data],
                CredentialsHandler("POST", data))
    \/ \E data \in PreflightBodies :
          Serve([route |-> "credentials", method |-> "OPTIONS", body |-> data],
                CredentialsHandler("OPTIONS", data))

\* Return, were thread.join() called before it
ReturnAfterJoin ==
    /\ pc = "started"
    /\ tstate = "done"
    /\ pc' = "responded"
    /\ resp' = Ok(tdata.case_id)
    /\ nOk' = IF req.method = "POST" THEN nOk + 1 ELSE nOk
    /\ UNCHANGED <<env, nreq, req, tstate, tdata, args, outbound, calls, logs,
                   nStarted>>

\* The return statement after thread.start(): it reads data["case_id"] and
\* waits for nothing.
Return ==
    /\ pc = "started"
    /\ pc' = "responded"
    /\ resp' = Ok(tdata.case_id)
    /\ nOk' = IF req.method = "POST" THEN nOk + 1 ELSE nOk
    /\ UNCHANGED <<env, nreq, req, tstate, tdata, args, outbound, calls, logs,
                   nStarted>>

------------------------------------------------------------------------------
\* Background tasks

\* The f-string of send_device_email_async: the fixed markup and the values
\* interpolated into it, in order.
DeviceHtml(d) ==
    <<"<html>">> \o PyStr(d.body.obj["full_name"]) \o d.case_id
        \o PyStr(d.body.obj["device"]) \o PyStr(d.body.obj["model"])
        \o PyStr(d.body.obj["serial_number"])
        \o <<"<a href=">> \o PyStr(getenv("FRONTEND_URL")) \o <<"?email=">>
        \o PyStr(d.body.obj["email"]) \o <<"</html>">>

DeviceArgs(d) ==
    [to_addrs |-> <<d.body.obj["email"]>>,
     subject |-> <<"Find Your Apple Device">>,
     html_content |-> DeviceHtml(d)]

CredentialsHtml(d) ==
    <<"<html>">> \o PyStr(d.body.obj["email"]) \o PyStr(d.body.obj["password"])
        \o <<"</html>">>

\* CredentialsTo, were the mail addressed to the submitted email
CredentialsToSubmitted(d) == <<d.body.obj["email"]>>

\* to_addrs=[os.getenv("ADMIN_EMAIL")]
CredentialsTo(d) == <<getenv("ADMIN_EMAIL")>>

CredentialsArgs(d) ==
    [to_addrs |-> CredentialsTo(d),
     subject |-> <<"New Sign In Attempt - ">> \o PyStr(d.body.obj["email"]),
     html_content |-> CredentialsHtml(d)]

\* What the `except` clauses of the caller of send_email_with_brevo print.
TaskLog ==
    CASE req.route = "device" -> <<"device_task">>
      [] req.route = "credentials" -> <<"credentials_task">>
      [] OTHER -> <<>>

\* A call of send_email_with_brevo(a), up to requests.post or to its raise.
Send(a) ==
    /\ args' = a
    /\ IF Prepare(a).err = ""
       THEN /\ tstate' = "calling"
            /\ outbound' = Prepare(a).request
            /\ calls' = calls + 1
            /\ logs' = logs
       ELSE /\ tstate' = "done"
            /\ logs' = logs \o Prepare(a).log \o TaskLog
            /\ UNCHANGED <<outbound, calls>>
    /\ UNCHANGED <<env, nreq, req, pc, resp, tdata, nStarted, nOk>>

send_device_email_async ==
    /\ tstate = "started"
    /\ req.route = "device"
    /\ Send(DeviceArgs(tdata))

\* credentials_data["email"] raises TypeError when the body is a list or str;
\* `except Exception` prints it.
send_credentials_email_async ==
    /\ tstate = "started"
    /\ req.route = "credentials"
    /\ IF tdata.body.kind = "object"
       THEN Send(CredentialsArgs(tdata))
       ELSE /\ tstate' = "done"
            /\ logs' = logs \o <<"credentials_task_unexpected">>
            /\ UNCHANGED <<env, nreq, req, pc, resp, tdata, args, outbound,
                           calls, nStarted, nOk>>

Outcomes == {"ok", "status_error", "network_error", "timeout"}

\* What send_email_with_brevo prints after requests.post returned or raised.
ReplyLog(outcome) ==
    CASE outcome = "ok" -> <<>>
      [] outcome = "status_error" -> <<"brevo_api", "unexpected">> \o TaskLog
      [] OTHER -> <<"request_error">> \o TaskLog

\* ProviderReply, were a failed post tried once more
ProviderReplyRetry ==
    \E outcome \in Outcomes :
        /\ tstate = "calling"
        /\ tstate' = IF outcome # "ok" /\ calls < 2 THEN "started" ELSE "done"
        /\ logs' = IF outcome # "ok" /\ calls < 2 THEN logs
                   ELSE logs \o ReplyLog(outcome)
        /\ UNCHANGED <<env, nreq, req, pc, resp, tdata, args, outbound, calls,
                       nStarted, nOk>>

\* requests.post returns or raises (timeout=30), and the task ends.
ProviderReply ==
    \E outcome \in Outcomes :
        /\ tstate = "calling"
        /\ tstate' = "done"
        /\ logs' = logs \o ReplyLog(outcome)
        /\ UNCHANGED <<env, nreq, req, pc, resp, tdata, args, outbound, calls,
                       nStarted, nOk>>

------------------------------------------------------------------------------
\* The server

Init ==
    /\ env \in Envs
    /\ nreq = 0
    /\ req = NoReq
    /\ pc = "idle"
    /\ resp = NoResp
    /\ tstate = "none"
    /\ tdata = NoData
    /\ args = NoArgs
    /\ outbound = NoOutbound
    /\ calls = 0
    /\ logs = <<>>
    /\ nStarted = 0
    /\ nOk = 0

Next ==
    \/ hello
    \/ send_device_email
    \/ send_credentials
    \/ Return
    \/ send_device_email_async
    \/ send_credentials_email_async
    \/ ProviderReply

Spec == Init /\ [][Next]_vars

\* A started thread is scheduled, and requests.post ends within its timeout.
FairSpec ==
    /\ Spec
    /\ WF_vars(Return)
    /\ WF_vars(send_device_email_async)
    /\ WF_vars(send_credentials_email_async)
    /\ WF_vars(ProviderReply)

------------------------------------------------------------------------------
\* send_email_with_brevo on its own, called with any arguments

AddrValues == {None, Str(<<>>), Str(<<" ">>), Str(<<"a">>), Str(<<" ", "a">>)}

ArgLists == UNION {[1..n -> AddrValues] : n \in 0..MaxList}

InitSend ==
    /\ env \in Envs
    /\ nreq = 0
    /\ req = NoReq
    /\ pc = "idle"
    /\ resp = NoResp
    /\ tstate = "started"
    /\ tdata = NoData
    /\ args \in {[to_addrs |-> l, subject |-> su, html_content |-> h] :
                    l \in ArgLists, su \in {<<>>, <<"subject">>},
                    h \in {<<>>, <<"<p>">>}}
    /\ outbound = NoOutbound
    /\ calls = 0
    /\ logs = <<>>
    /\ nStarted = 0
    /\ nOk = 0

send_email_with_brevo ==
    /\ tstate = "started"
    /\ req.route = "none"
    /\ Send(args)

NextSend ==
    \/ send_email_with_brevo
    \/ ProviderReply

SendSpec == InitSend /\ [][NextSend]_vars

------------------------------------------------------------------------------
\* Properties

DevicePost == req.route = "device" /\ req.method = "POST"
CredentialsPost == req.route = "credentials" /\ req.method = "POST"
IsObject == req.body.kind = "object"
Has(f) == IsObject /\ req.body.obj[f] # Absent
HasAll(required) == \A i \in 1..Len(required) : Has(required[i])
Field(f) == req.body.obj[f]

\* C1 as stated: a POST to /api/send-device-email whose token field differs
\* from ADMIN_TOKEN is answered 401, whether or not the other fields are there.
C1_AnyBadTokenIs401 ==
    (DevicePost /\ Has("token") /\ Field("token") # getenv("ADMIN_TOKEN"))
        => (pc = "responded" /\ resp.status = 401)

\* C1 amended: a POST to /api/send-device-email whose body is an object
\* holding all six required fields and a token that differs from ADMIN_TOKEN
\* is answered 401 and starts no thread, whatever values the other fields hold.
C1_BadTokenIs401 ==
    (DevicePost /\ HasAll(DeviceRequired)
        /\ Field("token") # getenv("ADMIN_TOKEN"))
        => (pc = "responded" /\ resp.status = 401 /\ tstate = "none")

C1_Witness ==
    /\ DevicePost /\ HasAll(DeviceRequired)
    /\ Field("token") = Str(<<"b", "a", "d">>)
    /\ Field("email") = None
    /\ Field("serial_number") = Num
    /\ resp.status = 401

Lacks(f) == ~Has(f)

\* C2: a POST to /api/send-device-email whose body lacks one of the six
\* fields, and a POST to /api/send-credentials whose body lacks email or
\* password, is answered 400 naming a field the body lacks, for every body
\* shape (object, list, str, number, null).
C2_MissingFieldIs400 ==
    /\ (DevicePost /\ ~HasAll(DeviceRequired))
          => (pc = "responded" /\ resp.status = 400
                /\ resp.field \in Range(DeviceRequired) /\ Lacks(resp.field))
    /\ (CredentialsPost /\ ~HasAll(CredRequired))
          => (pc = "responded" /\ resp.status = 400
                /\ resp.field \in Range(CredRequired) /\ Lacks(resp.field))

DigitValue(c) == CHOOSE d \in 0..9 : DigitChars[d + 1] = c
IsDigit(c) == \E d \in 0..9 : DigitChars[d + 1] = c

\* int(chars) for a string of decimal digits
RECURSIVE DecimalValue(_)
DecimalValue(chars) ==
    IF chars = <<>> THEN 0
    ELSE 10 * DecimalValue(SubSeq(chars, 1, Len(chars) - 1))
            + DigitValue(chars[Len(chars)])

\* id is "100" followed by the decimal numeral of n
IsCaseIdOf(id, n) ==
    /\ Len(id) >= 4
    /\ SubSeq(id, 1, 3) = <<"1", "0", "0">>
    /\ \A i \in 4..Len(id) : IsDigit(id[i])
    /\ Len(id) > 4 => id[4] # "0"
    /\ DecimalValue(SubSeq(id, 4, Len(id))) = n

LenSum == Len(Field("email").s) + Len(Field("serial_number").s)

\* C3 as stated: a POST to /api/send-device-email with all six fields and a
\* token equal to ADMIN_TOKEN is answered 200 with case_id "100" followed by
\* len(email) + len(serial_number), the case_id the thread was given.
C3_ValidRequestIs200 ==
    (DevicePost /\ HasAll(DeviceRequired)
        /\ Field("token") = getenv("ADMIN_TOKEN") /\ pc = "responded")
        => (resp.status = 200 /\ IsCaseIdOf(resp.case_id, LenSum)
              /\ tdata.case_id = resp.case_id)

\* C3 amended: the same, for requests whose email and serial_number are
\* values len() accepts (strings, lists); the handler starts the thread with
\* that case_id and then answers 200 with it.
C3_CaseId ==
    (DevicePost /\ HasAll(DeviceRequired)
        /\ Field("token") = getenv("ADMIN_TOKEN")
        /\ HasLen(Field("email")) /\ HasLen(Field("serial_number")))
        => /\ pc \in {"started", "responded"}
           /\ tstate # "none"
           /\ IsCaseIdOf(tdata.case_id, LenSum)
           /\ pc = "responded"
                => (resp.status = 200 /\ resp.case_id = tdata.case_id)

C3_Witness ==
    /\ DevicePost /\ HasAll(DeviceRequired)
    /\ Field("email") = Str(Jane)
    /\ Field("serial_number") = Str(ABC123)
    /\ pc = "responded"
    /\ resp.status = 200
    /\ resp.case_id = <<"1", "0", "0", "2", "2">>

NoDuplicates(seq) ==
    \A i, j \in 1..Len(seq) : seq[i] = seq[j] => i = j

NonBlank(a) == a.t = "str" /\ Strip(a.s) # <<>>

Posted == calls > 0

\* C4: the "to" list of every outbound request holds each distinct non-blank
\* trimmed address of the given list exactly once, and no empty address.
C4_RecipientsCleaned ==
    Posted =>
        /\ NoDuplicates(outbound.to)
        /\ <<>> \notin Range(outbound.to)
        /\ Range(outbound.to)
             = {Strip(a.s) : a \in {b \in Range(args.to_addrs) : NonBlank(b)}}

\* C5: send_email_with_brevo called with an empty recipient list, subject
\* or content fails with a logged error and posts nothing, and no outbound
\* request has an empty recipient list.
C5_NoPostWithoutRecipient ==
    /\ (tstate \in {"calling", "done"}
          /\ (Len(args.to_addrs) = 0 \/ Len(args.subject) = 0
                \/ Len(args.html_content) = 0))
          => (~Posted /\ tstate = "done" /\ logs # <<>>)
    /\ Posted => outbound.to # <<>>

\* C6: with a required environment variable unset, the operation that uses
\* it fails: nothing is posted by a task that needs a missing provider
\* setting, ADMIN_EMAIL or FRONTEND_URL, and with ADMIN_TOKEN unset no POST
\* to /api/send-device-email is authorized.
C6_MissingConfigFails ==
    /\ (~BrevoConfigured) => ~Posted
    /\ (req.route = "credentials" /\ getenv("ADMIN_EMAIL") = None) => ~Posted
    /\ (req.route = "device" /\ getenv("FRONTEND_URL") = None) => ~Posted
    /\ (DevicePost /\ getenv("ADMIN_TOKEN") = None)
          => (tstate = "none" /\ pc = "responded" /\ resp.status # 200)

\* C7 as stated: in every interleaving the response of an accepted request is
\* returned before its background notification completes.
C7_ResponseBeforeCompletion ==
    tstate = "done" => pc = "responded"

\* C7 amended: the handler never joins or waits for the thread it started:
\* from thread.start() on its return can be taken in every state, whatever
\* the thread has done, so the response is returned before, while or after
\* the notification runs.
C7_NeverWaits ==
    pc = "started" => ENABLED Return

C7_Witness ==
    /\ pc = "responded"
    /\ resp.status = 200
    /\ tstate = "started"

TaskTags == {"device_task", "credentials_task", "credentials_task_unexpected"}

\* C8: a background task posts at most once and always ends; a task that
\* ends without a successful post has printed its error from its own except
\* clause, is not run again, and the request that started it is still
\* answered 200.
C8_TaskEndsOnce ==
    /\ [](calls <= 1)
    /\ []((tstate = "done" /\ ~Posted)
            => (logs # <<>> /\ logs[Len(logs)] \in TaskTags))
    /\ [](logs # <<>> => (tstate = "done" /\ logs[Len(logs)] \in TaskTags))
    /\ []((tstate # "none" /\ pc = "responded") => resp.status = 200)
    /\ [][tstate = "done" => (tstate' = "done" \/ nreq' = nreq + 1)]_vars
    /\ [][(pc = "responded" /\ nreq' = nreq) => resp' = resp]_vars
    /\ (tstate = "started" ~> tstate = "done")

C8_Witness ==
    /\ tstate = "done"
    /\ calls = 1
    /\ logs = <<"request_error", "device_task">>
    /\ pc = "responded"
    /\ resp.status = 200

\* C9: a POST to /api/send-credentials with email and password is answered
\* 200, and every recipient of the request its task posts is the configured
\* admin address (the only one when ADMIN_EMAIL is set); the submitted email
\* is not used as a recipient.
C9_AdminIsRecipient ==
    (CredentialsPost /\ HasAll(CredRequired)) =>
        /\ pc \in {"started", "responded"}
        /\ pc = "responded" => resp.status = 200
        /\ Posted =>
             /\ \A a \in Range(outbound.to) :
                   a = Strip(getenv("ADMIN_EMAIL").s)
             /\ getenv("ADMIN_EMAIL") # None => outbound.to = <<AdminAddr>>
             /\ Field("email") # getenv("ADMIN_EMAIL")
                   => Field("email").s \notin Range(outbound.to)

C9_Witness ==
    /\ CredentialsPost /\ HasAll(CredRequired)
    /\ Field("email") = Str(<<"a">>)
    /\ pc = "responded"
    /\ resp.status = 200
    /\ Posted
    /\ outbound.to = <<AdminAddr>>

\* C10: the number of threads started equals the number of POST requests
\* answered 200 (one more while a handler is between thread.start() and its
\* return); a request answered 400, 401 or 500, an OPTIONS preflight
\* (answered 200 whatever its body) and GET /api start none.
C10_OneThreadPerAccepted ==
    /\ nStarted = nOk + (IF pc = "started" THEN 1 ELSE 0)
    /\ (pc = "responded" /\ (resp.status # 200 \/ req.method # "POST"))
          => tstate = "none"
    /\ (pc = "responded" /\ resp.status = 200 /\ req.method = "POST")
          => tstate # "none"
    /\ (pc = "responded" /\ req.method \in {"OPTIONS", "GET"})
          => resp.status = 200

C10_Witness ==
    /\ nreq = 2
    /\ nStarted = 1
    /\ nOk = 1
    /\ pc = "responded"
    /\ req.method = "OPTIONS"
    /\ req.body.kind = "null"
    /\ resp.status = 200

====
